---- MODULE Spec2Model ----
(***************************************************************************)
(* Model of the text_chunking indexing engine: the chunking policies       *)
(* (chunking.py), the vector index and index manager (index.py) and the    *)
(* IndexingService registry with its manifests (api.py), driven by the     *)
(* request handlers of the threading web server (web.py).                  *)
(***************************************************************************)
EXTENDS Integers, Sequences, FiniteSets, TLC

\* ------------------------------------------------------------------ bounds
\* number of service calls explored from the initial state (sequential runs)
MaxCalls == 2
\* number of requests the threading server receives (concurrent runs)
MaxConcCalls == 2
\* add_document calls made on one VectorIndex
MaxAdds == 3
\* Requests that arrive in the run of builds of one name beside queries of another.
MaxCrossCalls == 3
\* Largest window_chars / overlap_chars tried besides the example pair.
MaxWindow == 3

\* ------------------------------------------------------- program constants
DEFAULT_WINDOW_CHARS == 800
DEFAULT_OVERLAP_CHARS == 200
INITIAL_MAX_ELEMENTS == 2048

\* Python's None for an optional argument is the empty tuple, a value v is <<v>>.
None == << >>
Some(v) == <<v>>

\* `value or default` on an optional integer: None and 0 are both falsy.
OrDefault(opt, default) == IF opt = None \/ opt[1] = 0 THEN default ELSE opt[1]

\* ------------------------------------------------------------------- text
\* A text is a sequence of one-character strings.
IsSpace(c) == c \in {" ", "\n"}

Min(a, b) == IF a <= b THEN a ELSE b

\* str.strip(): drop leading and trailing whitespace.
Strip(s) ==
    LET idx == {i \in 1..Len(s) : ~IsSpace(s[i])}
    IN  IF idx = {} THEN << >>
        ELSE LET lo == CHOOSE i \in idx : \A j \in 1..(i - 1) : IsSpace(s[j])
                 hi == CHOOSE i \in idx : \A j \in (i + 1)..Len(s) : IsSpace(s[j])
             IN  SubSeq(s, lo, hi)

\* Seeded fault: empty members are kept.
KeepAll(ws) == ws

\* Keep the non-empty members of a sequence of texts, in order.
NonEmpty(ws) == SelectSeq(ws, LAMBDA w : w # << >>)

\* str.split("\n\n"): cut at the non-overlapping occurrences of the
\* separator, scanning left to right; `cur` is the piece being collected.
RECURSIVE SplitBlank(_, _)
SplitBlank(s, cur) ==
    IF s = << >> THEN <<cur>>
    ELSE IF Len(s) >= 2 /\ s[1] = "\n" /\ s[2] = "\n"
         THEN <<cur>> \o SplitBlank(SubSeq(s, 3, Len(s)), << >>)
         ELSE SplitBlank(Tail(s), Append(cur, Head(s)))

\* ------------------------------------------------------ chunking policies
\* Seeded fault: the overlap is not compared with the window.
SlidingValidLoose(w, o) == w > 0 /\ o >= 0

\* SlidingWindowChunker.__init__ : the configuration is accepted.
SlidingValid(w, o) == w > 0 /\ o >= 0 /\ o < w

SlidingWindowChunker(w, o) ==
    [name |-> "sliding_window", window_chars |-> w, overlap_chars |-> o]
ParagraphChunker == [name |-> "paragraph"]
WholeDocumentChunker == [name |-> "whole_document"]

\* Seeded fault: the windows do not overlap, each starts where the last ended.
SlidingWindowsNoOverlap(content, start, w, step) ==
    LET left == Len(content) - start
        n == IF left <= 0 THEN 0 ELSE (left + w - 1) \div w
        at(k) == start + (k - 1) * w
    IN  [k \in 1..n |-> Strip(SubSeq(content, at(k) + 1, Min(at(k) + w, Len(content))))]

\* The loop `for start in range(start, len(content), step)`: the raw windows
\* content[start : start + w], each stripped. A range with a negative step
\* and a stop above its start is empty.
SlidingWindows(content, start, w, step) ==
    LET left == Len(content) - start
        n == IF step <= 0 \/ left <= 0 THEN 0 ELSE (left + step - 1) \div step
        at(k) == start + (k - 1) * step
    IN  [k \in 1..n |-> Strip(SubSeq(content, at(k) + 1, Min(at(k) + w, Len(content))))]

SlidingChunk(p, text) ==
    LET content == Strip(text)
    IN  IF content = << >> THEN << >>
        ELSE NonEmpty(SlidingWindows(content, 0, p.window_chars,
                                     p.window_chars - p.overlap_chars))

RECURSIVE StripAll(_)
StripAll(ws) ==
    IF ws = << >> THEN << >> ELSE <<Strip(Head(ws))>> \o StripAll(Tail(ws))

ParagraphChunk(text) == NonEmpty(StripAll(SplitBlank(text, << >>)))

WholeDocumentChunk(text) ==
    LET cleaned == Strip(text) IN IF cleaned = << >> THEN << >> ELSE <<cleaned>>

\* policy.chunk(text), dispatched on the policy object
Chunk(p, text) ==
    CASE p.name = "sliding_window" -> SlidingChunk(p, text)
      [] p.name = "paragraph" -> ParagraphChunk(text)
      [] OTHER -> WholeDocumentChunk(text)

\* SlidingWindowChunker(window_chars, overlap_chars) as a call: the object,
\* or the ValueError of __init__.
NewSlidingWindowChunker(w, o) ==
    IF SlidingValid(w, o) THEN [err |-> "ok", obj |-> SlidingWindowChunker(w, o)]
    ELSE [err |-> "ValueError", obj |-> None]

\* policy.chunk(text) as a call: range() raises ValueError for a step of 0,
\* which is reached only when the stripped text is not empty.
ChunkCall(p, text) ==
    IF /\ p.name = "sliding_window"
       /\ Strip(text) # << >>
       /\ p.window_chars - p.overlap_chars = 0
    THEN [err |-> "ValueError", segments |-> << >>]
    ELSE [err |-> "ok", segments |-> Chunk(p, text)]

\* ---------------------------------------------------------------- corpus
\* Document ids in the order sorted() gives them; "du" is registered by
\* register_url only, "dx" is never registered.
DocOrder == <<"d1", "d2", "d3", "du", "dx">>
DocIds == {DocOrder[i] : i \in 1..Len(DocOrder)}

\* The registered documents: d1 has two paragraphs, d2 one line, d3 is blank.
CorpusInit ==
    [d \in {"d1", "d2", "d3"} |->
        [has_path |-> TRUE,
         text |-> CASE d = "d1" -> <<"a", "b", "\n", "\n", "c", " ", "d">>
                    [] d = "d2" -> <<"d", " ", "A">>
                    [] OTHER -> <<" ", "\n">>]]

\* CorpusManager.list_documents, as the list of ids build_index takes from it
ListDocuments(corpus_) == SelectSeq(DocOrder, LAMBDA d : d \in DOMAIN corpus_)

\* Seeded fault: a document that cannot be loaded counts as an empty one.
LoadContentLenient(corpus_, doc_id) ==
    IF doc_id \in DOMAIN corpus_ /\ corpus_[doc_id].has_path
    THEN [err |-> "ok", text |-> corpus_[doc_id].text]
    ELSE [err |-> "ok", text |-> << >>]

\* CorpusManager.load_content for a text document
LoadContent(corpus_, doc_id) ==
    IF doc_id \notin DOMAIN corpus_
    THEN [err |-> "KeyError: Unknown document", text |-> << >>]
    ELSE IF ~corpus_[doc_id].has_path
         THEN [err |-> "FileNotFoundError", text |-> << >>]
         ELSE [err |-> "ok", text |-> corpus_[doc_id].text]

\* ------------------------------------------------------------- embeddings
Models == {"text-mini", "text-e5", "text-bge", "text-hash"}
DIMENSIONS == 128

\* Seeded fault: tokens keep their case.
LowerNot(c) == c

\* str.lower() on one character
Lower(c) == IF c = "A" THEN "a" ELSE c

RECURSIVE LowerAll(_)
LowerAll(tok) ==
    IF tok = << >> THEN << >> ELSE <<Lower(Head(tok))>> \o LowerAll(Tail(tok))

\* text.split(): the maximal runs of non-whitespace characters
RECURSIVE SplitWs(_, _)
SplitWs(s, cur) ==
    IF s = << >> THEN (IF cur = << >> THEN << >> ELSE <<cur>>)
    ELSE IF IsSpace(Head(s))
         THEN (IF cur = << >> THEN << >> ELSE <<cur>>) \o SplitWs(Tail(s), << >>)
         ELSE SplitWs(Tail(s), Append(cur, Head(s)))

Tokens(text) ==
    LET raw == SplitWs(text, << >>)
    IN  [i \in 1..Len(raw) |-> LowerAll(raw[i])]

CharCode(c) ==
    CASE c = "a" -> 1 [] c = "b" -> 2 [] c = "c" -> 3 [] c = "d" -> 4
      [] c = "e" -> 5 [] OTHER -> 6

\* Stand-in for int.from_bytes(sha256(f"{name}:{token}").digest()[:4], "big"):
\* a fixed function of the model name and the token's characters.
RECURSIVE Digest(_, _)
Digest(acc, tok) ==
    IF tok = << >> THEN acc ELSE Digest(acc * 31 + CharCode(Head(tok)), Tail(tok))

Bucket(model, tok) ==
    Digest(IF model = "text-hash" THEN 7 ELSE 11, tok) % DIMENSIONS

\* HashedEmbeddingModel._vector_from_tokens before normalisation: the count
\* of tokens per bucket, on the buckets that are hit.
Counts(model, text) ==
    LET toks == Tokens(text)
        hit == {Bucket(model, toks[i]) : i \in 1..Len(toks)}
    IN  [b \in hit |-> Cardinality({i \in 1..Len(toks) : Bucket(model, toks[i]) = b})]

RECURSIVE SumOver(_, _)
SumOver(f, dom) ==
    IF dom = {} THEN 0
    ELSE LET b == CHOOSE e \in dom : TRUE IN f[b] + SumOver(f, dom \ {b})

Norm2(v) == SumOver([b \in DOMAIN v |-> v[b] * v[b]], DOMAIN v)
Dot(u, v) ==
    LET both == DOMAIN u \cap DOMAIN v
    IN  SumOver([b \in both |-> u[b] * v[b]], both)

\* HashedEmbeddingModel.embed_text: the counts divided by `norm or 1.0`, kept
\* as the counts and the square of the divisor.
EmbedText(model, text) ==
    LET counts == Counts(model, text)
    IN  [counts |-> counts, norm2 |-> IF Norm2(counts) = 0 THEN 1 ELSE Norm2(counts)]

\* cosine(q, x) > cosine(q, y) for the L2-normalised count vectors, compared
\* without square roots; a zero vector has cosine 0 with everything.
CosGreater(q, x, y) ==
    LET dx == Dot(q, x) dy == Dot(q, y) nx == Norm2(x) ny == Norm2(y)
    IN  IF dx = 0 THEN FALSE
        ELSE IF dy = 0 THEN TRUE
             ELSE dx * dx * ny > dy * dy * nx

\* ------------------------------------------------------------ VectorIndex
\* VectorIndex.__init__; phase is a history field, what has happened to the
\* object: "new", "building" (build_index is in its document loop), "loading"
\* (a lazy rebuild is), "aborted" (the loop raised), "loaded" (build_index
\* finished the loop), "complete" (build_index returned), "rebuilt" (the lazy
\* rebuild finished).
VectorIndex(name, policy, model) ==
    [name |-> name, policy |-> policy, model |-> model,
     records |-> << >>, document_ids |-> {},
     hnsw |-> None, max_elements |-> INITIAL_MAX_ELEMENTS, next_label |-> 0,
     phase |-> "new"]

ChunkRecord(doc_id, index, chunk_text, metadata) ==
    [chunk_id |-> <<doc_id, index>>, doc_id |-> doc_id, text |-> chunk_text,
     metadata |-> [order |-> index, policy |-> metadata.policy,
                   model |-> metadata.model]]

\* Seeded fault: the next label is not advanced.
AddChunkKeepsLabel(ix, doc_id, index, chunk_text, metadata) ==
    [ix EXCEPT !.records = Append(@, ChunkRecord(doc_id, index, chunk_text, metadata))]

\* One iteration of add_document's loop (lines 71-84) for chunk number `index`
\* (zero-based): the record is appended and the next label is taken.
AddChunk(ix, doc_id, index, chunk_text, metadata) ==
    [ix EXCEPT !.records = Append(@, ChunkRecord(doc_id, index, chunk_text, metadata)),
               !.next_label = @ + 1]

\* VectorIndex._ensure_index
EnsureIndex(ix) ==
    IF ix.hnsw # None THEN ix
    ELSE [ix EXCEPT !.hnsw = Some([max_elements |-> ix.max_elements, items |-> << >>])]

RECURSIVE Doubled(_, _)
Doubled(cap, required) == IF cap < required THEN Doubled(cap * 2, required) ELSE cap

\* Seeded fault: only the size of the batch is compared with the capacity.
GrowIfNeededForBatch(ix, additional) ==
    IF ix.hnsw = None \/ additional <= ix.max_elements THEN ix
    ELSE LET cap == Doubled(ix.max_elements, additional)
         IN  [ix EXCEPT !.max_elements = cap,
                        !.hnsw = Some([@[1] EXCEPT !.max_elements = cap])]

\* VectorIndex._grow_if_needed
GrowIfNeeded(ix, additional) ==
    IF ix.hnsw = None THEN ix
    ELSE LET required == ix.next_label + additional
         IN  IF required <= ix.max_elements THEN ix
             ELSE LET cap == Doubled(ix.max_elements, required)
                  IN  [ix EXCEPT !.max_elements = cap,
                                 !.hnsw = Some([@[1] EXCEPT !.max_elements = cap])]

\* hnsw.add_items(vectors, labels): each vector is kept as the text it embeds.
AddItems(ix, vectors, labels) ==
    [ix EXCEPT !.hnsw = Some([@[1] EXCEPT !.items =
        @ \o [i \in 1..Len(vectors) |-> [label |-> labels[i], src |-> vectors[i]]]])]

\* Seeded fault: the document counts as represented whatever it gave.
FlushAlways(ix, doc_id, vectors, labels) ==
    [ix EXCEPT !.document_ids = @ \cup {doc_id}]

\* The tail of add_document (lines 85-89)
Flush(ix, doc_id, vectors, labels) ==
    IF vectors = << >> THEN ix
    ELSE LET grown == GrowIfNeeded(EnsureIndex(ix), Len(vectors))
             added == AddItems(grown, vectors, labels)
         IN  [added EXCEPT !.document_ids = @ \cup {doc_id}]

\* Seeded fault: documents counts the chunk records.
StatusCountsChunks(ix) ==
    [name |-> ix.name, model |-> ix.model, policy |-> ix.policy.name,
     documents |-> Len(ix.records), chunks |-> Len(ix.records)]

\* Seeded fault: documents counts every document that has a chunk record.
StatusCountsRecorded(ix) ==
    [name |-> ix.name, model |-> ix.model, policy |-> ix.policy.name,
     documents |-> Cardinality({ix.records[i].doc_id : i \in 1..Len(ix.records)}),
     chunks |-> Len(ix.records)]

\* VectorIndex.status
Status(ix) ==
    [name |-> ix.name, model |-> ix.model, policy |-> ix.policy.name,
     documents |-> Cardinality(ix.document_ids), chunks |-> Len(ix.records)]

ChunkIds(ix) == [i \in 1..Len(ix.records) |-> ix.records[i].chunk_id]

\* What can go wrong inside one add_document call: nothing, embed_text raises
\* at chunk number `at`, or hnsw.add_items raises.
NoFault == [kind |-> "none", at |-> 0]
EmbedFault(at) == [kind |-> "embed", at |-> at]
InsertFault == [kind |-> "insert", at |-> 0]

\* The loop of add_document run for chunks number i .. stop - 1: the first
\* half of the iterations, then the rest.
RECURSIVE AddChunksUpTo(_, _, _, _, _, _)
AddChunksUpTo(ix, doc_id, chunks, i, stop, metadata) ==
    IF i >= stop THEN ix
    ELSE IF i + 1 = stop THEN AddChunk(ix, doc_id, i, chunks[i + 1], metadata)
    ELSE LET mid == (i + stop) \div 2
             \* the index after the first half, complete before the rest runs
             half == AddChunksUpTo(ix, doc_id, chunks, i, mid, metadata)
         IN  IF Len(half.records) >= 0
             THEN AddChunksUpTo(half, doc_id, chunks, mid, stop, metadata)
             ELSE half

\* VectorIndex.add_document as one call. When embed_text raises at a chunk,
\* the record of that chunk is already appended (line 73) and its label is
\* not yet taken (line 84); when add_items raises, the loop has finished and
\* the hnsw index exists and has grown.
AddDocument(ix, doc_id, text, metadata, fault) ==
    LET chunks == Chunk(ix.policy, text)
        n == Len(chunks)
        stop == IF fault.kind = "embed" /\ fault.at < n THEN fault.at ELSE n
        looped == AddChunksUpTo(ix, doc_id, chunks, 0, stop, metadata)
        labels == [i \in 1..n |-> ix.next_label + i - 1]
    IN  IF stop < n
        THEN [err |-> "EmbeddingError",
              ix |-> [looped EXCEPT !.records =
                        Append(@, ChunkRecord(doc_id, stop, chunks[stop + 1], metadata))]]
        ELSE IF n > 0 /\ fault.kind = "insert"
        THEN [err |-> "RuntimeError", ix |-> GrowIfNeeded(EnsureIndex(looped), n)]
        ELSE [err |-> "ok", ix |-> Flush(looped, doc_id, chunks, labels)]

\* Seeded fault: among equal scores the higher label comes first.
RECURSIVE NearestHighLabelFirst(_, _, _)
NearestHighLabelFirst(q, items, k) ==
    IF k <= 0 \/ items = {} THEN << >>
    ELSE LET best == CHOOSE x \in items : \A y \in items \ {x} :
                        \/ CosGreater(q, x.vec, y.vec)
                        \/ ~CosGreater(q, y.vec, x.vec) /\ x.label > y.label
         IN  <<best.label>> \o NearestHighLabelFirst(q, items \ {best}, k - 1)

\* hnsw.knn_query for one vector: the labels of the k nearest items, best
\* first; the result rows are filled in (distance, label) order, so equal
\* scores come in label order.
RECURSIVE Nearest(_, _, _)
Nearest(q, items, k) ==
    IF k <= 0 \/ items = {} THEN << >>
    ELSE LET best == CHOOSE x \in items : \A y \in items \ {x} :
                        \/ CosGreater(q, x.vec, y.vec)
                        \/ ~CosGreater(q, y.vec, x.vec) /\ x.label < y.label
         IN  <<best.label>> \o Nearest(q, items \ {best}, k - 1)

\* Seeded fault: the empty-index test of query is left out.
IsEmptyIndexNever(ix) == FALSE

\* VectorIndex.query line 92: `not self._hnsw or self._next_label == 0`
IsEmptyIndex(ix) == ix.hnsw = None \/ ix.next_label = 0

\* VectorIndex.query: the chunk ids of the hits in rank order, their labels,
\* and whether the query text was embedded. knn_query takes k as an unsigned
\* number and refuses a negative one; it raises when the index holds fewer
\* than k items.
Query(ix, text, top_k) ==
    IF IsEmptyIndex(ix)
    THEN [err |-> "ok", hits |-> << >>, labels |-> << >>, embedded |-> FALSE]
    ELSE LET its == IF ix.hnsw = None THEN << >> ELSE ix.hnsw[1].items
             k == Min(top_k, ix.next_label)
             cand == {[label |-> its[i].label, vec |-> Counts(ix.model, its[i].src)]
                        : i \in 1..Len(its)}
             labels == Nearest(Counts(ix.model, text), cand, k)
             kept == SelectSeq(labels, LAMBDA l : l < Len(ix.records))
             failed(e) == [err |-> e, hits |-> << >>, labels |-> << >>, embedded |-> TRUE]
         IN  IF ix.hnsw = None THEN failed("AttributeError")
             ELSE IF k < 0 THEN failed("TypeError")
             ELSE IF k > Len(its) THEN failed("RuntimeError")
             ELSE [err |-> "ok",
                   hits |-> [i \in 1..Len(kept) |-> ix.records[kept[i] + 1].chunk_id],
                   labels |-> kept, embedded |-> TRUE]

\* ------------------------------------------------------------ dictionaries
\* A Python dict is a function on its key set.
EmptyMap == [k \in {} |-> 0]
\* Seeded fault: every new object takes the first place of the heap.
AllocFirst(S) == 1

\* Seeded fault: the assignment replaces the dict by one with this key only.
PutOnly(f, k, v) == [x \in {k} |-> v]

Put(f, k, v) == [x \in DOMAIN f \cup {k} |-> IF x = k THEN v ELSE f[x]]
Pop(f, k) == [x \in DOMAIN f \ {k} |-> f[x]]
Range(f) == {f[x] : x \in DOMAIN f}

\* ---------------------------------------------------------- IndexingService
\* Collection names in sorted() order.
NameOrder == <<"a", "b">>
Names == {NameOrder[i] : i \in 1..Len(NameOrder)}

\* IndexingService._resolve_policy: the lookup table is built first, so the
\* sliding-window constructor runs (and may raise) whatever the name is.
ResolvePolicy(name, window_chars, overlap_chars) ==
    LET w == OrDefault(window_chars, DEFAULT_WINDOW_CHARS)
        o == OrDefault(overlap_chars, DEFAULT_OVERLAP_CHARS)
    IN  IF ~SlidingValid(w, o) THEN [err |-> "ValueError", obj |-> ParagraphChunker]
        ELSE CASE name = "sliding" -> [err |-> "ok", obj |-> SlidingWindowChunker(w, o)]
               [] name = "paragraph" -> [err |-> "ok", obj |-> ParagraphChunker]
               [] name = "document" -> [err |-> "ok", obj |-> WholeDocumentChunker]
               [] OTHER -> [err |-> "KeyError: Unknown policy", obj |-> ParagraphChunker]

\* Seeded fault: every model name counts as registered.
AnyModelKnown(name) == TRUE

\* IndexingService._resolve_model succeeds
ModelKnown(name) == name \in Models

\* Seeded fault: the manifest forgets the sliding-window configuration.
ManifestNoConfig(index_name, model, policy, target_docs, policy_obj) ==
    [name |-> index_name, model |-> model, policy |-> policy,
     documents |-> target_docs, chunk_config |-> EmptyMap]

\* Seeded fault: the manifest records the documents argument's tail only.
ManifestDropsFirst(index_name, model, policy, target_docs, policy_obj) ==
    [name |-> index_name, model |-> model, policy |-> policy,
     documents |-> IF target_docs = << >> THEN << >> ELSE Tail(target_docs),
     chunk_config |-> IF policy_obj.name = "sliding_window"
                      THEN [window_chars |-> policy_obj.window_chars,
                            overlap_chars |-> policy_obj.overlap_chars]
                      ELSE EmptyMap]

\* The manifest build_index writes (lines 184-197)
Manifest(index_name, model, policy, target_docs, policy_obj) ==
    [name |-> index_name, model |-> model, policy |-> policy,
     documents |-> target_docs,
     chunk_config |-> IF policy_obj.name = "sliding_window"
                      THEN [window_chars |-> policy_obj.window_chars,
                            overlap_chars |-> policy_obj.overlap_chars]
                      ELSE EmptyMap]

\* chunk_config.get(key)
ConfigGet(cc, key) == IF key \in DOMAIN cc THEN Some(cc[key]) ELSE None

\* A manifest file holding json.dumps(manifest), and a file cut short.
JsonFile(manifest) == [kind |-> "json", payload |-> manifest]
PartialFile == [kind |-> "partial"]

\* IndexingService._load_manifests: the manifests kept in memory
LoadManifests(files) ==
    [n \in {f \in DOMAIN files : ModelKnown(files[f].payload.model)} |->
        files[n].payload]

\* ... and the files it leaves on disk (stale ones are unlinked)
KeepFiles(files) ==
    [n \in {f \in DOMAIN files : ModelKnown(files[f].payload.model)} |-> files[n]]


\* --------------------------------------------------------- request threads
NoRet ==
    [op |-> "none", name |-> "", outcome |-> "", status |-> << >>, hits |-> << >>,
     seen_phase |-> "", seen_chunks |-> 0, was_present |-> FALSE,
     had_manifest |-> FALSE, added |-> << >>, args |-> << >>, beside |-> FALSE]

\* The frame of a request handler: arguments, locals, position, last result.
IdleThread ==
    [op |-> "idle", pc |-> "idle", name |-> "",
     model |-> "", policy |-> "", window |-> None, overlap |-> None,
     documents |-> << >>, text |-> << >>, top_k |-> 0, wfail |-> "ok",
     policy_obj |-> [name |-> ""], meta |-> [policy |-> "", model |-> ""],
     index |-> 0, docs |-> << >>, di |-> 0,
     chunks |-> << >>, ci |-> 0, vectors |-> << >>, labels |-> << >>,
     names |-> << >>, ni |-> 0, statuses |-> << >>,
     was_present |-> FALSE, had_manifest |-> FALSE, added |-> << >>,
     beside |-> FALSE,
     ret |-> NoRet]

\* The handler returns or raises: its frame is dropped, the result is kept.
Finish(T, outcome, status, hits, seen) ==
    [IdleThread EXCEPT !.ret =
        [op |-> T.op, name |-> T.name, outcome |-> outcome, status |-> status,
         hits |-> hits, seen_phase |-> seen.phase, seen_chunks |-> seen.chunks,
         was_present |-> T.was_present, had_manifest |-> T.had_manifest,
         added |-> T.added, beside |-> T.beside,
         args |-> IF T.op = "build"
                  THEN [model |-> T.model, policy |-> T.policy,
                        window |-> T.window, overlap |-> T.overlap,
                        policy_obj |-> T.policy_obj, documents |-> T.documents]
                  ELSE << >>]]

NoSeen == [phase |-> "", chunks |-> 0]
Raise(T, exc) == Finish(T, exc, << >>, << >>, NoSeen)

\* Seeded fault: a name without manifest gives an empty result, no error.
UnknownIndexSwallowed(T) == Finish(T, "ok", << >>, << >>, NoSeen)

\* _ensure_index_loaded line 135: raise KeyError(f"Unknown index: {name}")
UnknownIndex(T) == Raise(T, "KeyError: Unknown index")

\* Seeded faults: the manifest file is left in place; every file is removed.
UnlinkNothing(files, name) == files
UnlinkAll(files, name) == EmptyMap

\* _delete_manifest lines 126-128: the file of the name is removed if it exists
Unlink(files, name) == Pop(files, name)

SetPhase(S, o, ph) == [S EXCEPT !.heap = [@ EXCEPT ![o] = [@ EXCEPT !.phase = ph]]]

\* The smallest object id not in use.
Alloc(S) == CHOOSE o \in 1..(Cardinality(DOMAIN S.heap) + 1) : o \notin DOMAIN S.heap

\* Objects no dict entry and no frame refers to are gone.
Collect(S, refs) ==
    [S EXCEPT !.heap = [o \in (DOMAIN S.heap \cap (Range(S.indexes) \cup refs)) |-> S.heap[o]]]

\* Seeded fault: the names come out in reverse order.
ReversedNames(m) ==
    LET names == SelectSeq(NameOrder, LAMBDA n : n \in DOMAIN m)
    IN  [i \in 1..Len(names) |-> names[Len(names) + 1 - i]]

\* sorted(self._manifests)
SortedNames(m) == SelectSeq(NameOrder, LAMBDA n : n \in DOMAIN m)

\* Seeded faults: the membership test always answers no.
BuildNeverSeesIndex(S, name) == FALSE
EnsureNeverSeesIndex(S, name) == FALSE

\* build_index line 171, _ensure_index_loaded line 131: `name in index_manager`
BuildSeesIndex(S, name) == name \in DOMAIN S.indexes
EnsureSeesIndex(S, name) == name \in DOMAIN S.indexes

\* Where a handler continues once _ensure_index_loaded has its index.
AfterEnsure(T) == IF T.op = "query" THEN "q_query" ELSE "l_status"

R(S, T) == [s |-> S, t |-> T]

\* build_index, lines 166-178 and 199
StepBuild(S, T) ==
    CASE T.pc = "b_resolve" ->
            LET r == ResolvePolicy(T.policy, T.window, T.overlap)
                S0 == [S EXCEPT !.reset_names = Pop(@, T.name)]
            IN  IF r.err # "ok" THEN R(S0, Raise(T, r.err))
                ELSE IF ~ModelKnown(T.model) THEN R(S0, Raise(T, "KeyError: Unknown model"))
                ELSE R(S0, [T EXCEPT !.policy_obj = r.obj,
                                     !.meta = [policy |-> T.policy, model |-> T.model],
                                     !.pc = "b_check"])
      [] T.pc = "b_check" ->
            LET present == BuildSeesIndex(S, T.name)
            IN  R([S EXCEPT !.last_build = Pop(@, T.name)],
                  [T EXCEPT !.was_present = T.name \in DOMAIN S.indexes,
                            !.pc = IF present THEN "b_reset" ELSE "g_check"])
      [] T.pc = "b_reset" ->
            R([S EXCEPT !.indexes = Pop(@, T.name)], [T EXCEPT !.pc = "g_check"])
      [] T.pc = "b_docs" ->
            R(S, [T EXCEPT !.docs = IF T.documents # << >> THEN T.documents
                                    ELSE ListDocuments(S.corpus),
                           !.di = 1, !.pc = "d_load"])
      [] OTHER -> \* "b_status"
            LET ix == S.heap[T.index]
                done == SetPhase(S, T.index, "complete")
            IN  R([done EXCEPT !.last_build =
                        Put(@, T.name, [status |-> Status(ix), chunk_ids |-> ChunkIds(ix)])],
                  Finish(T, "ok", Status(ix), << >>, NoSeen))

\* IndexManager.get_or_create, lines 119-121, one step per dict access
StepGetOrCreate(S, T) ==
    CASE T.pc = "g_check" ->
            R(S, [T EXCEPT !.pc = IF T.name \notin DOMAIN S.indexes
                                  THEN "g_set" ELSE "g_ret"])
      [] T.pc = "g_set" ->
            LET o == Alloc(S)
            IN  R([S EXCEPT !.heap = Put(@, o, VectorIndex(T.name, T.policy_obj, T.model)),
                            !.indexes = Put(@, T.name, o)],
                  [T EXCEPT !.pc = "g_ret"])
      [] OTHER -> \* "g_ret"
            IF T.name \notin DOMAIN S.indexes THEN R(S, Raise(T, "KeyError"))
            ELSE LET o == S.indexes[T.name]
                 IN  R(SetPhase(S, o, IF T.op = "build" THEN "building" ELSE "loading"),
                       [T EXCEPT !.index = o,
                                 !.di = 1,
                                 !.pc = IF T.op = "build" THEN "b_docs" ELSE "d_load"])

\* The document loop of build_index (179-183) and of _ensure_index_loaded
\* (147-153), with VectorIndex.add_document (67-89) inside it.
StepAddDocuments(S, T) ==
    CASE T.pc = "d_load" ->
            IF T.di > Len(T.docs)
            THEN IF T.op = "build"
                 THEN R(SetPhase(S, T.index, "loaded"), [T EXCEPT !.pc = "m_mem"])
                 ELSE R(SetPhase(S, T.index, "rebuilt"), [T EXCEPT !.pc = AfterEnsure(T)])
            ELSE LET lc == LoadContent(S.corpus, T.docs[T.di])
                     chunks == Chunk(S.heap[T.index].policy, lc.text)
                 IN  IF lc.err # "ok"
                     THEN R(SetPhase(S, T.index, "aborted"), Raise(T, lc.err))
                     ELSE R(S, [T EXCEPT !.chunks = chunks, !.ci = 0,
                                         !.vectors = << >>, !.labels = << >>,
                                         !.added = Append(@, T.docs[T.di]),
                                         !.pc = IF chunks = << >> THEN "a_flush"
                                                ELSE "a_chunk"])
      [] T.pc = "a_chunk" ->
            LET ix == S.heap[T.index]
                text == T.chunks[T.ci + 1]
            IN  R([S EXCEPT !.heap = [@ EXCEPT ![T.index] =
                        AddChunk(ix, T.docs[T.di], T.ci, text, T.meta)]],
                  [T EXCEPT !.vectors = Append(@, text),
                            !.labels = Append(@, ix.next_label),
                            !.ci = @ + 1,
                            !.pc = IF T.ci + 1 = Len(T.chunks) THEN "a_flush"
                                   ELSE "a_chunk"])
      [] OTHER -> \* "a_flush"
            R([S EXCEPT !.heap = [@ EXCEPT ![T.index] =
                    Flush(S.heap[T.index], T.docs[T.di], T.vectors, T.labels)]],
              [T EXCEPT !.chunks = << >>, !.ci = 0, !.vectors = << >>,
                        !.labels = << >>, !.di = @ + 1, !.pc = "d_load"])

\* _write_manifest, lines 121-122; write_text succeeds, fails before the
\* file is opened, or fails after it was truncated (T.wfail).
StepWriteManifest(S, T) ==
    LET m == Manifest(T.name, T.model, T.policy, T.docs, T.policy_obj)
    IN  CASE T.pc = "m_mem" ->
                R([S EXCEPT !.manifests = Put(@, T.name, m)], [T EXCEPT !.pc = "m_disk"])
          [] OTHER -> \* "m_disk"
                CASE T.wfail = "ok" ->
                        R([S EXCEPT !.disk = Put(@, T.name, JsonFile(m))],
                          [T EXCEPT !.pc = "b_status"])
                  [] T.wfail = "fail_open" -> R(S, Raise(T, "OSError"))
                  [] OTHER ->
                        R([S EXCEPT !.disk = Put(@, T.name, PartialFile)],
                          Raise(T, "OSError"))

\* _ensure_index_loaded, lines 131-146
StepEnsure(S, T) ==
    CASE T.pc = "e_check" ->
            LET present == EnsureSeesIndex(S, T.name)
            IN  R(S, [T EXCEPT !.was_present = T.name \in DOMAIN S.indexes,
                               !.pc = IF present THEN "e_get" ELSE "e_manifest"])
      [] T.pc = "e_get" ->
            IF T.name \notin DOMAIN S.indexes THEN R(S, Raise(T, "KeyError"))
            ELSE R(S, [T EXCEPT !.index = S.indexes[T.name], !.pc = AfterEnsure(T)])
      [] OTHER -> \* "e_manifest"
            IF T.name \notin DOMAIN S.manifests THEN R(S, UnknownIndex(T))
            ELSE LET m == S.manifests[T.name]
                     r == ResolvePolicy(m.policy,
                                        ConfigGet(m.chunk_config, "window_chars"),
                                        ConfigGet(m.chunk_config, "overlap_chars"))
                 IN  IF r.err # "ok" THEN R(S, Raise(T, r.err))
                     ELSE IF ~ModelKnown(m.model)
                     THEN R(S, Raise(T, "KeyError: Unknown model"))
                     ELSE R(S, [T EXCEPT !.policy_obj = r.obj, !.model = m.model,
                                         !.meta = [policy |-> m.policy, model |-> m.model],
                                         !.docs = m.documents, !.pc = "g_check"])

\* IndexingService.query, lines 210-217 (no min_score)
StepQuery(S, T) ==
    LET ix == S.heap[T.index]
        r == Query(ix, T.text, T.top_k)
        seen == [phase |-> ix.phase, chunks |-> Len(ix.records)]
    IN  IF r.err # "ok" THEN R(S, Finish(T, r.err, << >>, << >>, seen))
        ELSE R(S, Finish(T, "ok", << >>, r.hits, seen))

\* IndexingService.list_indexes, lines 221-227
StepList(S, T) ==
    CASE T.pc = "l_start" ->
            IF DOMAIN S.manifests = {} THEN R(S, Finish(T, "ok", << >>, << >>, NoSeen))
            ELSE LET names == SortedNames(S.manifests)
                 IN  R(S, [T EXCEPT !.names = names, !.ni = 1, !.name = names[1],
                                    !.pc = "e_check"])
      [] OTHER -> \* "l_status"
            LET sts == Append(T.statuses, Status(S.heap[T.index]))
            IN  IF T.ni = Len(T.names) THEN R(S, Finish(T, "ok", sts, << >>, NoSeen))
                ELSE R(S, [T EXCEPT !.statuses = sts, !.ni = @ + 1,
                                    !.name = T.names[T.ni + 1], !.index = 0,
                                    !.added = << >>, !.pc = "e_check"])

\* IndexingService.reset_index with IndexManager.reset and _delete_manifest
StepReset(S, T) ==
    CASE T.pc = "r_pop" ->
            R([S EXCEPT !.indexes = Pop(@, T.name), !.last_build = Pop(@, T.name)],
              [T EXCEPT !.was_present = T.name \in DOMAIN S.indexes,
                        !.had_manifest = T.name \in DOMAIN S.manifests,
                        !.pc = "r_mpop"])
      [] T.pc = "r_mpop" ->
            R([S EXCEPT !.manifests = Pop(@, T.name)], [T EXCEPT !.pc = "r_unlink"])
      [] OTHER -> \* "r_unlink"
            R([S EXCEPT !.disk = Unlink(@, T.name),
                        !.reset_names = Put(@, T.name, "reset")],
              Finish(T, "ok", << >>, << >>, NoSeen))

\* One step of a handler: the statement at its program counter.
Step(S, T) ==
    CASE T.pc \in {"b_resolve", "b_check", "b_reset", "b_docs", "b_status"} -> StepBuild(S, T)
      [] T.pc \in {"g_check", "g_set", "g_ret"} -> StepGetOrCreate(S, T)
      [] T.pc \in {"d_load", "a_chunk", "a_flush"} -> StepAddDocuments(S, T)
      [] T.pc \in {"m_mem", "m_disk"} -> StepWriteManifest(S, T)
      [] T.pc \in {"e_check", "e_get", "e_manifest"} -> StepEnsure(S, T)
      [] T.pc = "q_query" -> StepQuery(S, T)
      [] T.pc \in {"l_start", "l_status"} -> StepList(S, T)
      [] OTHER -> StepReset(S, T)

\* A handler run from its first statement to its return, alone.
RECURSIVE Run(_, _)
Run(S, T) ==
    IF T.pc = "idle" THEN R(Collect(S, {}), T)
    ELSE LET n == Step(S, T) IN Run(Collect(n.s, {n.t.index}), n.t)

\* The frames of the four service calls at their first statement.
StartBuild(name, model, policy, window, overlap, documents, wfail) ==
    [IdleThread EXCEPT !.op = "build", !.pc = "b_resolve", !.name = name,
                       !.model = model, !.policy = policy, !.window = window,
                       !.overlap = overlap, !.documents = documents, !.wfail = wfail]
StartQuery(name, text, top_k) ==
    [IdleThread EXCEPT !.op = "query", !.pc = "e_check", !.name = name,
                       !.text = text, !.top_k = top_k]
StartList == [IdleThread EXCEPT !.op = "list", !.pc = "l_start"]
StartReset(name) == [IdleThread EXCEPT !.op = "reset", !.pc = "r_pop", !.name = name]

\* ------------------------------------------------------------------ inputs
\* A build_index request: its arguments and what write_text will do.
Request(name, model, policy, window, overlap, documents, wfail) ==
    [name |-> name, model |-> model, policy |-> policy, window |-> window,
     overlap |-> overlap, documents |-> documents, wfail |-> wfail]

DocLists ==
    { << >>, <<"d1">>, <<"d3">>, <<"d2", "d1">>, <<"d1", "d1">>, <<"d1", "dx">> }

\* Every policy on every document list for one name, a build that succeeds
\* and one that aborts for the other, the manifest write succeeding ...
PlainRequests ==
    { Request("a", "text-hash", c[1], c[2], c[3], d, "ok") :
        d \in DocLists,
        c \in { <<"document", None, None>>, <<"paragraph", None, None>>,
                <<"sliding", Some(3), Some(1)>> } }
    \cup { Request("b", "text-hash", "document", None, None, d, "ok") :
             d \in { <<"d2", "d1">>, <<"d1", "dx">> } }

\* ... the manifest write failing ...
FailedWriteRequests ==
    { Request("a", "text-hash", "document", None, None, <<"d1">>, w) :
        w \in {"fail_open", "fail_write"} }

\* ... and the default, the zero, the invalid and the unknown arguments.
CornerRequests ==
    { Request("a", m, c[1], c[2], c[3], <<"d1">>, "ok") :
        m \in {"text-hash"},
        c \in { <<"sliding", None, None>>, <<"sliding", Some(0), Some(1)>>,
                <<"sliding", Some(3), Some(0)>>, <<"sliding", Some(3), None>>,
                <<"paragraph", Some(1), Some(3)>>, <<"bogus", None, None>> } }
    \cup { Request("a", "bogus", "document", None, None, <<"d1">>, "ok"),
           Request("a", "bogus", "document", Some(3), None, <<"d1">>, "ok"),
           Request("a", "text-hash", "document", None, None, <<"dx", "d1">>, "ok"),
           Request("a", "text-hash", "paragraph", None, None, <<"d2", "du", "d1">>, "ok") }

BuildRequests == PlainRequests \cup FailedWriteRequests \cup CornerRequests

\* Documents registered by URL while the service runs.
UrlDocs == {"du", "d1"}

QueryTexts == { <<"d">> }
TopKs == {1, 5}

ThreadIds == {1, 2}

\* ------------------------------------------------------------------- state
\* last_build, reset_names and found are history: the result of the last
\* successful build of a name, the names reset and not built since (and
\* whether the service was restarted after the reset), and the files the last
\* startup found in the index directory.
VARIABLES indexes, heap, manifests, disk, corpus, last_build, reset_names,
          found, threads, calls

vars == <<indexes, heap, manifests, disk, corpus, last_build, reset_names,
          found, threads, calls>>

Shared ==
    [indexes |-> indexes, heap |-> heap, manifests |-> manifests, disk |-> disk,
     corpus |-> corpus, last_build |-> last_build, reset_names |-> reset_names]

SetShared(S) ==
    /\ indexes' = S.indexes
    /\ heap' = S.heap
    /\ manifests' = S.manifests
    /\ disk' = S.disk
    /\ corpus' = S.corpus
    /\ last_build' = S.last_build
    /\ reset_names' = S.reset_names

\* What earlier runs of the service, or of a version of it with other models
\* and policies, may have left in the index directory.
InitDisks ==
    LET ma == Manifest("a", "text-hash", "paragraph", <<"d1">>, ParagraphChunker)
        mb == Manifest("b", "text-hash", "document", <<"d2", "d1">>, WholeDocumentChunker)
        old_model == Manifest("a", "text-old", "paragraph", <<"d1">>, ParagraphChunker)
        old_policy == Manifest("b", "text-hash", "semantic", <<"d2">>, WholeDocumentChunker)
    IN  { EmptyMap,
          [n \in {"a"} |-> JsonFile(ma)],
          [n \in {"a", "b"} |-> JsonFile(IF n = "a" THEN ma ELSE mb)],
          [n \in {"a", "b"} |-> JsonFile(IF n = "a" THEN old_model ELSE mb)],
          [n \in {"a", "b"} |-> JsonFile(IF n = "a" THEN ma ELSE old_policy)] }

\* IndexingService.__init__ on a directory out of InitDisks
Init ==
    /\ \E files \in InitDisks :
        /\ manifests = LoadManifests(files)
        /\ disk = KeepFiles(files)
        /\ found = files
    /\ indexes = EmptyMap
    /\ heap = EmptyMap
    /\ corpus = CorpusInit
    /\ last_build = EmptyMap
    /\ reset_names = EmptyMap
    /\ threads = [t \in ThreadIds |-> IdleThread]
    /\ calls = 0

\* ------------------------------------------------- one caller, whole calls
Returned(r) ==
    /\ SetShared(r.s)
    /\ threads' = [threads EXCEPT ![1] = r.t]
    /\ calls' = calls + 1
    /\ UNCHANGED found

build_index ==
    /\ calls < MaxCalls
    /\ \E q \in BuildRequests :
        Returned(Run(Shared, StartBuild(q.name, q.model, q.policy, q.window,
                                        q.overlap, q.documents, q.wfail)))

query ==
    /\ calls < MaxCalls
    /\ \E name \in Names, text \in QueryTexts, top_k \in TopKs :
        Returned(Run(Shared, StartQuery(name, text, top_k)))

list_indexes ==
    /\ calls < MaxCalls
    /\ Returned(Run(Shared, StartList))

reset_index ==
    /\ calls < MaxCalls
    /\ \E name \in Names : Returned(Run(Shared, StartReset(name)))

\* A new IndexingService on the same directory (each CLI command makes one);
\* json.loads raises on a file cut short, and then there is no service.
Restart ==
    /\ \A n \in DOMAIN disk : disk[n].kind = "json"
    /\ indexes' = EmptyMap
    /\ heap' = EmptyMap
    /\ manifests' = LoadManifests(disk)
    /\ disk' = KeepFiles(disk)
    /\ found' = disk
    /\ threads' = [threads EXCEPT ![1] = [IdleThread EXCEPT !.ret = [NoRet EXCEPT !.op = "restart"]]]
    /\ reset_names' = [n \in DOMAIN reset_names |-> "restarted"]
    /\ UNCHANGED <<corpus, last_build, calls>>

\* IndexManager.reset called on the manager itself: the in-memory index is
\* discarded and the manifest stays.
discard_index ==
    \E name \in DOMAIN indexes :
        /\ SetShared(Collect([Shared EXCEPT !.indexes = Pop(@, name)], {}))
        /\ threads' = [threads EXCEPT ![1] =
                [IdleThread EXCEPT !.ret = [NoRet EXCEPT !.op = "discard", !.name = name]]]
        /\ UNCHANGED <<calls, found>>

\* IndexingService.register_url without a local copy: the document is in the
\* corpus and has no content to load.
register_url ==
    /\ calls < MaxCalls
    /\ \E doc_id \in UrlDocs :
        /\ corpus' = Put(corpus, doc_id, [has_path |-> FALSE, text |-> << >>])
        /\ threads' = [threads EXCEPT ![1] =
                [IdleThread EXCEPT !.ret = [NoRet EXCEPT !.op = "register", !.name = doc_id]]]
    /\ calls' = calls + 1
    /\ UNCHANGED <<indexes, heap, manifests, disk, last_build, reset_names, found>>

Next ==
    \/ build_index \/ query \/ list_indexes \/ reset_index \/ register_url
    \/ Restart \/ discard_index

Spec == Init /\ [][Next]_vars

\* ------------------------------- request handlers on the threading server
\* ThreadingHTTPServer runs each request in a thread of its own and the
\* service takes no lock: handlers interleave statement by statement.
ConcRequests ==
    { StartBuild("a", "text-hash", "document", None, None, <<"d1">>, "ok"),
      StartBuild("a", "text-hash", "paragraph", None, None, <<"d2", "d1">>, "ok"),
      StartBuild("b", "text-hash", "document", None, None, <<"d1">>, "ok"),
      StartQuery("a", <<"d">>, 5),
      StartQuery("b", <<"d">>, 5),
      StartList,
      StartReset("a") }

\* A request arrives: a free thread (the first one) starts its handler.
Begin ==
    /\ calls < MaxConcCalls
    /\ \E t \in ThreadIds, T \in ConcRequests :
        /\ threads[t].pc = "idle"
        /\ \A u \in ThreadIds : u < t => threads[u].pc # "idle"
        /\ threads' = [threads EXCEPT ![t] = T]
    /\ calls' = calls + 1
    /\ UNCHANGED <<indexes, heap, manifests, disk, corpus, last_build, reset_names, found>>

\* The handler running in thread t executes its next statement.
AdvanceThread(t) ==
    /\ threads[t].pc # "idle"
    /\ LET n == Step(Shared, threads[t])
           ts == [threads EXCEPT ![t] = n.t]
       IN  /\ SetShared(Collect(n.s, {ts[u].index : u \in ThreadIds}))
           /\ threads' = ts
    /\ UNCHANGED <<calls, found>>

\* A running handler executes its next statement.
Advance == \E t \in ThreadIds : AdvanceThread(t)

NextConc == Begin \/ Advance

SpecConc == Init /\ [][NextConc]_vars

\* -------------------------- builds of one name beside queries of another
CrossQuery == StartQuery("b", <<"d">>, 5)

CrossRequests ==
    { StartBuild("a", "text-hash", "document", None, None, <<"d1">>, "ok"),
      StartBuild("a", "text-hash", "paragraph", None, None, <<"d2", "d1">>, "ok"),
      CrossQuery }

\* The directory holds a manifest of the name queried.
InitCross == Init /\ "b" \in DOMAIN manifests

\* A request arrives while no request of its kind is running, and a free
\* thread starts its handler; the frame notes whether a build_index of
\* another name is running at that moment.
BeginCross ==
    /\ calls < MaxCrossCalls
    /\ \E t \in ThreadIds, T \in CrossRequests :
        /\ threads[t].pc = "idle"
        /\ \A u \in ThreadIds : u < t => threads[u].pc # "idle"
        /\ \A u \in ThreadIds : threads[u].pc # "idle" => threads[u].op # T.op
        /\ threads' = [threads EXCEPT ![t] =
                [T EXCEPT !.beside = \E u \in ThreadIds \ {t} :
                                        /\ threads[u].op = "build"
                                        /\ threads[u].name # T.name]]
    /\ calls' = calls + 1
    /\ UNCHANGED <<indexes, heap, manifests, disk, corpus, last_build, reset_names, found>>

NextCross == BeginCross \/ Advance

SpecCross == InitCross /\ [][NextCross]_vars

\* --------------------------------------------- one VectorIndex, used directly
\* The hashed model cannot fail; a sentence-transformers model raises when
\* its checkpoint cannot be loaded or encode fails.
Faults(model) ==
    IF model = "text-hash" THEN {NoFault}
    ELSE {NoFault, EmbedFault(0), EmbedFault(1), InsertFault}

\* A new index under each policy, with a model of each kind.
InitIndex ==
    /\ \E policy \in {ParagraphChunker, WholeDocumentChunker, SlidingWindowChunker(3, 1)},
          model \in {"text-hash", "text-mini"} :
            heap = [o \in {1} |-> VectorIndex("a", policy, model)]
    /\ indexes = [n \in {"a"} |-> 1]
    /\ manifests = EmptyMap
    /\ disk = EmptyMap
    /\ found = EmptyMap
    /\ corpus = CorpusInit
    /\ last_build = EmptyMap
    /\ reset_names = EmptyMap
    /\ threads = [t \in ThreadIds |-> IdleThread]
    /\ calls = 0

\* What is remembered of an add_document call (and of the call before it):
\* its arguments, its outcome, the number of segments of its text, and the
\* status of the index before it.
AddResult(ix, doc_id, text, r) ==
    [op |-> "add", name |-> doc_id, text |-> text, outcome |-> r.err,
     n |-> Len(Chunk(ix.policy, text)),
     before |-> Status(ix),
     represented |-> doc_id \in ix.document_ids]

\* History: the ids of the documents whose add_document call put a vector
\* into the hnsw index, as carried by the result of the last call.
Inserted(ret) == IF ret.op \in {"add", "vquery", "status"} THEN ret.inserted ELSE {}

\* The number of vectors an index holds.
Held(ix) == IF ix.hnsw = None THEN 0 ELSE Len(ix.hnsw[1].items)

add_document ==
    /\ calls < MaxAdds
    /\ \E doc_id \in DOMAIN corpus, fault \in Faults(heap[1].model) :
        LET ix == heap[1]
            text == corpus[doc_id].text
            r == AddDocument(ix, doc_id, text,
                             [policy |-> ix.policy.name, model |-> ix.model], fault)
            last == AddResult(ix, doc_id, text, r)
        IN  /\ heap' = [heap EXCEPT ![1] = r.ix]
            /\ threads' = [threads EXCEPT ![1] = [IdleThread EXCEPT !.ret =
                    [op |-> "add", last |-> last,
                     prev |-> IF threads[1].ret.op = "add" THEN threads[1].ret.last
                              ELSE [op |-> "none"],
                     inserted |-> Inserted(threads[1].ret) \cup
                                  (IF Held(r.ix) > Held(ix) THEN {doc_id} ELSE {})]]]
    /\ calls' = calls + 1
    /\ UNCHANGED <<indexes, manifests, disk, corpus, last_build, reset_names, found>>

\* Query texts and top_k values given to VectorIndex.query directly.
IndexTopKs == {-1, 0, 1, 2}

\* What is remembered of a VectorIndex.query call.
QueryResult(text, top_k, r) ==
    [op |-> "vquery", text |-> text, top_k |-> top_k, outcome |-> r.err,
     hits |-> r.hits, labels |-> r.labels, embedded |-> r.embedded]

index_query ==
    /\ \E text \in QueryTexts, top_k \in IndexTopKs :
        LET r == Query(heap[1], text, top_k)
        IN  threads' = [threads EXCEPT ![1] = [IdleThread EXCEPT !.ret =
                [op |-> "vquery", last |-> QueryResult(text, top_k, r),
                 prev |-> IF threads[1].ret.op = "vquery" THEN threads[1].ret.last
                          ELSE [op |-> "none"],
                 inserted |-> Inserted(threads[1].ret)]]]
    /\ UNCHANGED <<indexes, heap, manifests, disk, corpus, last_build, reset_names,
                   found, calls>>

\* VectorIndex.status(): the dictionary is returned, nothing is assigned.
index_status ==
    /\ threads' = [threads EXCEPT ![1] = [IdleThread EXCEPT !.ret =
            [op |-> "status", last |-> [op |-> "status", value |-> Status(heap[1])],
             prev |-> [op |-> "none"],
             inserted |-> Inserted(threads[1].ret)]]]
    /\ UNCHANGED <<indexes, heap, manifests, disk, corpus, last_build, reset_names,
                   found, calls>>

NextIndex == add_document \/ index_query \/ index_status

SpecIndex == InitIndex /\ [][NextIndex]_vars

\* ------------------------------------------- one chunking policy, used directly
\* The window and overlap arguments tried: every pair around the valid range,
\* and the pair (10, 2).
WindowArgs ==
    ((-1..MaxWindow) \X (-1..MaxWindow)) \cup {<<10, 2>>}

\* The texts segmented: empty, blank, with blank paragraphs, with runs of
\* spaces, with surrounding whitespace, and sixteen letters.
ChunkTexts ==
    { << >>, <<" ", "\n">>,
      <<"a", "b", "\n", "\n", "c", " ", "d">>,
      <<"a", "\n", "\n", " ", "\n", "\n", "b">>,
      <<"a", " ", " ", " ", "b", "c">>,
      <<" ", "a", "b", "c", "d", "e", "\n">>,
      <<"a", "b", "c", "d", "e", "f", "g", "h", "i", "j", "k", "l", "m", "n", "o", "p">> }

\* A policy object that needs no argument is in place.
InitChunk ==
    /\ \E p \in {ParagraphChunker, WholeDocumentChunker} : heap = [o \in {1} |-> p]
    /\ indexes = EmptyMap
    /\ manifests = EmptyMap
    /\ disk = EmptyMap
    /\ found = EmptyMap
    /\ corpus = EmptyMap
    /\ last_build = EmptyMap
    /\ reset_names = EmptyMap
    /\ threads = [t \in ThreadIds |-> IdleThread]
    /\ calls = 0

\* SlidingWindowChunker(w, o): the object replaces the policy in place when
\* the constructor returns one.
new_sliding ==
    /\ \E a \in WindowArgs :
        LET r == NewSlidingWindowChunker(a[1], a[2])
        IN  /\ heap' = IF r.err = "ok" THEN [heap EXCEPT ![1] = r.obj] ELSE heap
            /\ threads' = [threads EXCEPT ![1] = [IdleThread EXCEPT !.ret =
                    [op |-> "new", window |-> a[1], overlap |-> a[2],
                     outcome |-> r.err]]]
    /\ UNCHANGED <<indexes, manifests, disk, corpus, last_build, reset_names,
                   found, calls>>

\* ParagraphChunker() / WholeDocumentChunker()
new_plain ==
    /\ \E p \in {ParagraphChunker, WholeDocumentChunker} :
        /\ heap' = [heap EXCEPT ![1] = p]
        /\ threads' = [threads EXCEPT ![1] = [IdleThread EXCEPT !.ret =
                [op |-> "plain", outcome |-> "ok"]]]
    /\ UNCHANGED <<indexes, manifests, disk, corpus, last_build, reset_names,
                   found, calls>>

\* policy.chunk(text) on the policy in place
chunk ==
    /\ \E text \in ChunkTexts :
        LET r == ChunkCall(heap[1], text)
        IN  threads' = [threads EXCEPT ![1] = [IdleThread EXCEPT !.ret =
                [op |-> "chunk", text |-> text, outcome |-> r.err,
                 segments |-> r.segments]]]
    /\ UNCHANGED <<indexes, heap, manifests, disk, corpus, last_build, reset_names,
                   found, calls>>

NextChunk == new_sliding \/ new_plain \/ chunk

SpecChunk == InitChunk /\ [][NextChunk]_vars

\* --------------------------------------- one hashing model, used directly
\* The texts embedded: without token, one token in either case and with
\* surrounding whitespace, the same tokens in another order or with other
\* separators, a token twice.
EmbedTexts ==
    { << >>, <<" ">>, <<"a">>, <<"A">>, <<" ", "a", "\n">>,
      <<"a", " ", "b">>, <<"b", " ", "a">>, <<"b", " ", " ", "A">>,
      <<"a", "\n", "b">>, <<"a", "b">>, <<"a", " ", "a">>, <<"d", " ", "A">> }

\* HashedEmbeddingModel(name) with the default dimensions
HashedEmbeddingModel(name) == [name |-> name, dimensions |-> DIMENSIONS]

InitEmbed ==
    /\ \E name \in {"text-hash", "hash-2"} :
            heap = [o \in {1} |-> HashedEmbeddingModel(name)]
    /\ indexes = EmptyMap
    /\ manifests = EmptyMap
    /\ disk = EmptyMap
    /\ found = EmptyMap
    /\ corpus = EmptyMap
    /\ last_build = EmptyMap
    /\ reset_names = EmptyMap
    /\ threads = [t \in ThreadIds |-> IdleThread]
    /\ calls = 0

\* model.embed_text(text); the call before it is remembered.
embed_text ==
    /\ \E text \in EmbedTexts :
        threads' = [threads EXCEPT ![1] = [IdleThread EXCEPT !.ret =
            [op |-> "embed",
             last |-> [op |-> "embed", text |-> text,
                       vector |-> EmbedText(heap[1].name, text)],
             prev |-> IF threads[1].ret.op = "embed" THEN threads[1].ret.last
                      ELSE [op |-> "none"]]]]
    /\ UNCHANGED <<indexes, heap, manifests, disk, corpus, last_build, reset_names,
                   found, calls>>

NextEmbed == embed_text

SpecEmbed == InitEmbed /\ [][NextEmbed]_vars

\* ------------------------------------- one VectorIndex given large documents
\* A text of n characters without whitespace.
Solid(n) == [i \in 1..n |-> "x"]

\* Documents that give half the initial capacity, one more, and more than
\* the whole initial capacity in windows of one character; d2 gives a few.
LargeCorpus ==
    [d \in {"g1", "g2", "g3", "d2"} |->
        [has_path |-> TRUE,
         text |-> CASE d = "g1" -> Solid(INITIAL_MAX_ELEMENTS \div 2)
                    [] d = "g2" -> Solid(INITIAL_MAX_ELEMENTS \div 2 + 1)
                    [] d = "g3" -> Solid(INITIAL_MAX_ELEMENTS + 1)
                    [] OTHER -> <<"d", " ", "A">>]]

\* A new index whose policy makes one segment per character.
InitLarge ==
    /\ \E policy \in {SlidingWindowChunker(1, 0), SlidingWindowChunker(2, 1)} :
            heap = [o \in {1} |-> VectorIndex("a", policy, "text-hash")]
    /\ indexes = [n \in {"a"} |-> 1]
    /\ manifests = EmptyMap
    /\ disk = EmptyMap
    /\ found = EmptyMap
    /\ corpus = LargeCorpus
    /\ last_build = EmptyMap
    /\ reset_names = EmptyMap
    /\ threads = [t \in ThreadIds |-> IdleThread]
    /\ calls = 0

NextLarge == add_document

SpecLarge == InitLarge /\ [][NextLarge]_vars
\* ------------------------------------------------------------ properties
\* The result of the last call of the single caller.
Ret == threads[1].ret

\* The index object materialized for a name.
IndexOf(n) == heap[indexes[n]]

\* The chunk ids and texts that segmenting the documents `docs` in order
\* under policy p must give.
RECURSIVE ExpectedChunks(_, _)
ExpectedChunks(p, docs) ==
    IF docs = << >> THEN << >>
    ELSE LET cs == Chunk(p, corpus[Head(docs)].text)
         IN  [i \in 1..Len(cs) |-> [chunk_id |-> <<Head(docs), i - 1>>, text |-> cs[i]]]
             \o ExpectedChunks(p, Tail(docs))

RecordsOf(ix) ==
    [i \in 1..Len(ix.records) |->
        [chunk_id |-> ix.records[i].chunk_id, text |-> ix.records[i].text]]

\* C1: between calls, every name in the index map has a manifest.
C1_IndexHasManifest == \A n \in DOMAIN indexes : n \in DOMAIN manifests

\* C2: a query never returns the index that an aborted build_index left with
\* the chunks of only some of its documents.
C2_NoPartialExposed ==
    (Ret.op = "query" /\ Ret.outcome = "ok")
        => ~(Ret.seen_phase = "aborted" /\ Ret.seen_chunks > 0)

\* C3: a query running beside a build_index of the same name never reads an
\* index that the build is still populating and that already holds chunks.
C3_QueryNeverSeesBuilding ==
    \A t \in ThreadIds :
        threads[t].ret.op = "query"
            => ~(threads[t].ret.seen_phase = "building" /\ threads[t].ret.seen_chunks > 0)

\* C4: once two overlapping build_index calls on one name have both returned,
\* the index of that name holds exactly the chunks of one of them and the
\* manifest describes that same build.
C4_BuildsSerialized ==
    LET r1 == threads[1].ret
        r2 == threads[2].ret
        IsBuild(r) ==
            /\ r.name \in DOMAIN indexes
            /\ RecordsOf(IndexOf(r.name)) = ExpectedChunks(r.args.policy_obj, r.added)
            /\ r.name \in DOMAIN manifests
            /\ manifests[r.name].policy = r.args.policy
            /\ manifests[r.name].documents = r.added
    IN  (/\ \A t \in ThreadIds : threads[t].pc = "idle"
         /\ r1.op = "build" /\ r2.op = "build" /\ r1.name = r2.name
         /\ r1.outcome = "ok" /\ r2.outcome = "ok")
            => (IsBuild(r1) \/ IsBuild(r2))

\* The index a single lazy rebuild of name n makes from the manifests, alone.
SequentialRebuild(n) ==
    LET r == Run([Shared EXCEPT !.indexes = EmptyMap, !.heap = EmptyMap],
                 StartQuery(n, << >>, 0))
    IN  r.s.heap[r.s.indexes[n]]

\* C5: once two overlapping queries that both found no materialized index
\* have returned, the index has the documents, chunks and chunk ids of one
\* sequential lazy rebuild.
C5_RebuildOnce ==
    LET r1 == threads[1].ret
        r2 == threads[2].ret
    IN  (/\ \A t \in ThreadIds : threads[t].pc = "idle"
         /\ r1.op = "query" /\ r2.op = "query" /\ r1.name = r2.name
         /\ ~r1.was_present /\ ~r2.was_present
         /\ r1.outcome = "ok" /\ r2.outcome = "ok"
         /\ r1.name \in DOMAIN indexes)
            => /\ Status(IndexOf(r1.name)) = Status(SequentialRebuild(r1.name))
               /\ ChunkIds(IndexOf(r1.name)) = ChunkIds(SequentialRebuild(r1.name))

\* C6: an index materialized by the lazy rebuild, after the successful build
\* whose manifest it replays, has that build's status and chunk ids.
C6_RoundTrip ==
    \A n \in DOMAIN indexes \cap DOMAIN last_build :
        IndexOf(n).phase = "rebuilt"
            => /\ Status(IndexOf(n)) = last_build[n].status
               /\ ChunkIds(IndexOf(n)) = last_build[n].chunk_ids

C6_Witness ==
    \E n \in DOMAIN indexes \cap DOMAIN last_build :
        /\ IndexOf(n).phase = "rebuilt"
        /\ IndexOf(n).policy.name = "sliding_window"
        /\ Len(IndexOf(n).records) >= 2

\* C7: the manifest in memory and the manifest file of every name agree, and
\* no manifest file is partial.
C7_ManifestAtomic ==
    /\ DOMAIN manifests = DOMAIN disk
    /\ \A n \in DOMAIN disk : disk[n] = JsonFile(manifests[n])

\* C8: after a successful build_index on a name that had a materialized
\* index, the index holds exactly the chunks of the documents built, in
\* order, under labels 0..n-1, and represents exactly the documents that gave
\* a chunk.
C8_FullRebuild ==
    (Ret.op = "build" /\ Ret.outcome = "ok" /\ Ret.was_present)
        => LET ix == IndexOf(Ret.name)
               want == ExpectedChunks(Ret.args.policy_obj, Ret.added)
           IN  /\ RecordsOf(ix) = want
               /\ ix.next_label = Len(want)
               /\ ix.document_ids = {want[i].chunk_id[1] : i \in 1..Len(want)}
               /\ (want # << >> =>
                     ix.hnsw[1].items =
                        [i \in 1..Len(want) |-> [label |-> i - 1, src |-> want[i].text]])
               /\ (want = << >> => ix.hnsw = None)

C8_Witness ==
    /\ Ret.op = "build" /\ Ret.outcome = "ok" /\ Ret.was_present
    /\ Len(IndexOf(Ret.name).records) >= 2

\* C9: after a successful build_index the manifest of the name, in memory and
\* on disk, records the name, the model, the policy, the policy configuration
\* and the documents add_document was called for, in order; the status
\* returned is the status of the index built.
C9_ManifestOfBuild ==
    (Ret.op = "build" /\ Ret.outcome = "ok")
        => LET p == Ret.args.policy_obj
               want == [name |-> Ret.name, model |-> Ret.args.model,
                        policy |-> Ret.args.policy, documents |-> Ret.added,
                        chunk_config |->
                            IF Ret.args.policy = "sliding"
                            THEN [window_chars |-> p.window_chars,
                                  overlap_chars |-> p.overlap_chars]
                            ELSE EmptyMap]
           IN  /\ Ret.name \in DOMAIN manifests
               /\ manifests[Ret.name] = want
               /\ Ret.name \in DOMAIN disk
               /\ disk[Ret.name] = JsonFile(want)
               /\ Ret.status = Status(IndexOf(Ret.name))

C9_Witness ==
    /\ Ret.op = "build" /\ Ret.outcome = "ok"
    /\ Len(Ret.added) >= 2
    /\ Ret.status.chunks >= 2

\* C10: a query or list_indexes call leaves every index that was materialized
\* before it, and the manifest map, as they were; a query of a materialized
\* name replays no document.
C10_LoadedIndexUntouched ==
    [][ (calls' = calls + 1 /\ threads'[1].ret.op \in {"query", "list"})
            => /\ \A n \in DOMAIN indexes :
                    /\ n \in DOMAIN indexes'
                    /\ heap'[indexes'[n]] = heap[indexes[n]]
               /\ manifests' = manifests
               /\ (threads'[1].ret.op = "query" /\ threads'[1].ret.name \in DOMAIN indexes
                     => threads'[1].ret.added = << >>) ]_vars

C10_Witness ==
    /\ Ret.op = "query" /\ Ret.outcome = "ok" /\ Ret.was_present
    /\ Ret.name \in DOMAIN manifests
    /\ Ret.seen_chunks >= 2
    /\ Ret.hits # << >>

\* The state the step leads to.
SharedNext ==
    [indexes |-> indexes', heap |-> heap', manifests |-> manifests', disk |-> disk',
     corpus |-> corpus', last_build |-> last_build', reset_names |-> reset_names']

\* The result of the call the step makes.
RetNext == threads'[1].ret

\* C11: a query of a name that has no materialized index and no manifest
\* raises the unknown-index error, returns no hit, and leaves the index map,
\* the indexes, the manifest map and the manifest files as they were.
C11_UnknownIndexNotFound ==
    [][ (/\ calls' = calls + 1
         /\ RetNext.op = "query"
         /\ RetNext.name \notin DOMAIN indexes
         /\ RetNext.name \notin DOMAIN manifests)
            => /\ RetNext.outcome = "KeyError: Unknown index"
               /\ RetNext.hits = << >>
               /\ indexes' = indexes
               /\ heap' = heap
               /\ manifests' = manifests
               /\ disk' = disk ]_vars

C11_Witness ==
    /\ Ret.op = "query"
    /\ Ret.outcome = "KeyError: Unknown index"
    /\ Ret.name \notin DOMAIN indexes
    /\ Ret.name \notin DOMAIN manifests
    /\ DOMAIN indexes # {}
    /\ DOMAIN manifests # {}

C13_ResetIdempotent ==
    [][ (calls' = calls + 1 /\ RetNext.op = "reset")
            => /\ RetNext.outcome = "ok"
               /\ (RetNext.name \notin DOMAIN indexes \cup DOMAIN manifests
                     => /\ indexes' = indexes
                        /\ heap' = heap
                        /\ manifests' = manifests
                        /\ disk' = disk)
               /\ Run(SharedNext, StartReset(RetNext.name)).s = SharedNext ]_vars

C13_Witness ==
    /\ Ret.op = "reset" /\ Ret.outcome = "ok"
    /\ ~Ret.was_present /\ ~Ret.had_manifest
    /\ DOMAIN indexes # {}
    /\ DOMAIN disk # {}

\* The place of a name in the lexicographic order.
NamePos(n) == CHOOSE i \in 1..Len(NameOrder) : NameOrder[i] = n

\* C14: list_indexes returns one status per manifest name, the names in
\* lexicographic order, each the status of the index of its name, and every
\* manifest name has a materialized index when it returns.
C14_ListEveryManifest ==
    (Ret.op = "list" /\ Ret.outcome = "ok")
        => /\ Len(Ret.status) = Cardinality(DOMAIN manifests)
           /\ {Ret.status[i].name : i \in 1..Len(Ret.status)} = DOMAIN manifests
           /\ \A i, j \in 1..Len(Ret.status) :
                i < j => NamePos(Ret.status[i].name) < NamePos(Ret.status[j].name)
           /\ \A n \in DOMAIN manifests : n \in DOMAIN indexes
           /\ \A i \in 1..Len(Ret.status) :
                Ret.status[i] = Status(IndexOf(Ret.status[i].name))

C14_Witness ==
    /\ Ret.op = "list" /\ Ret.outcome = "ok"
    /\ Len(Ret.status) = 2
    /\ \E n \in DOMAIN indexes : IndexOf(n).phase = "rebuilt"
    /\ \E n \in DOMAIN indexes : IndexOf(n).phase = "complete"

\* C15: after startup, the manifests in memory are exactly those found in
\* the index directory that name a registered model, with their content; the
\* files of the others are gone and the files of these are kept; and at all
\* times every manifest in memory names a registered model.
C15_StaleModelDropped ==
    /\ \A n \in DOMAIN manifests :
            manifests[n].model \in {"text-mini", "text-e5", "text-bge", "text-hash"}
    /\ Ret.op \in {"none", "restart"}
        => LET known == {n \in DOMAIN found : found[n].payload.model \in
                            {"text-mini", "text-e5", "text-bge", "text-hash"}}
           IN  /\ DOMAIN manifests = known
               /\ DOMAIN disk = known
               /\ \A n \in known : manifests[n] = found[n].payload /\ disk[n] = found[n]

C15_Witness ==
    /\ Ret.op = "none"
    /\ \E n \in DOMAIN found : n \notin DOMAIN manifests /\ n \notin DOMAIN disk
    /\ DOMAIN manifests # {}

\* C16: a manifest that names an unknown policy never makes list_indexes
\* raise the unknown-policy error.
C16_StalePolicyDiscarded ==
    ~(Ret.op = "list" /\ Ret.outcome = "KeyError: Unknown policy")

\* A document build_index cannot load: not registered, or no local copy.
Unavailable(d) == d \notin DOMAIN corpus \/ ~corpus[d].has_path

\* C17: a build_index whose model and policy resolve and whose documents
\* include one that cannot be loaded raises the error of the first such
\* document, has called add_document for exactly the documents before it, and
\* leaves the manifest map and the manifest files as they were.
C17_AbortOnFirstUnavailable ==
    [][ (/\ calls' = calls + 1
         /\ RetNext.op = "build"
         /\ RetNext.args.policy_obj.name # "")
            => LET target == IF RetNext.args.documents # << >>
                             THEN RetNext.args.documents
                             ELSE SelectSeq(DocOrder, LAMBDA d : d \in DOMAIN corpus)
                   bad == {i \in 1..Len(target) : Unavailable(target[i])}
                   first == CHOOSE i \in bad : \A j \in bad : i <= j
               IN  IF bad = {}
                   THEN RetNext.outcome \notin {"KeyError: Unknown document",
                                                "FileNotFoundError"}
                   ELSE /\ RetNext.outcome =
                              IF target[first] \in DOMAIN corpus
                              THEN "FileNotFoundError"
                              ELSE "KeyError: Unknown document"
                        /\ RetNext.added = SubSeq(target, 1, first - 1)
                        /\ manifests' = manifests
                        /\ disk' = disk ]_vars

C17_Witness ==
    /\ Ret.op = "build"
    /\ Ret.outcome = "FileNotFoundError"
    /\ Len(Ret.added) = 1
    /\ Len(Ret.args.documents) = 3
    /\ Ret.name \in DOMAIN manifests
    /\ Ret.name \in DOMAIN disk

\* The index add_document is called on.
TheIndex == heap[1]

\* C18: an add_document call whose text gives no segment returns and leaves
\* the whole index (records, next label, capacity, hnsw, represented
\* documents) as it was; every represented document has a chunk record.
C18_EmptyAddIsNoOp ==
    [][ (calls' = calls + 1 /\ RetNext.op = "add")
            => /\ (RetNext.last.n = 0
                     => /\ RetNext.last.outcome = "ok"
                        /\ heap'[1] = heap[1]
                        /\ Status(heap'[1]) = Status(heap[1]))
               /\ \A d \in heap'[1].document_ids :
                    \E i \in 1..Len(heap'[1].records) : heap'[1].records[i].doc_id = d ]_vars

C18_Witness ==
    /\ Ret.op = "add"
    /\ Ret.last.n = 0
    /\ Ret.last.outcome = "ok"
    /\ Len(TheIndex.records) >= 2
    /\ TheIndex.hnsw # None

\* C19: two successful add_document calls in a row with the same document
\* id, not represented before, and the same text of n >= 1 segments raise
\* the document count by 1 in all and the chunk count by n each.
C19_AddTwiceCountsOnce ==
    (/\ Ret.op = "add" /\ Ret.prev.op = "add"
     /\ Ret.prev.name = Ret.last.name
     /\ Ret.prev.text = Ret.last.text
     /\ Ret.prev.outcome = "ok" /\ Ret.last.outcome = "ok"
     /\ ~Ret.prev.represented
     /\ Ret.last.n >= 1)
        => /\ Status(TheIndex).documents = Ret.prev.before.documents + 1
           /\ Ret.last.before.chunks = Ret.prev.before.chunks + Ret.last.n
           /\ Status(TheIndex).chunks = Ret.last.before.chunks + Ret.last.n

C19_Witness ==
    /\ Ret.op = "add" /\ Ret.prev.op = "add"
    /\ Ret.prev.name = Ret.last.name
    /\ Ret.prev.outcome = "ok" /\ Ret.last.outcome = "ok"
    /\ ~Ret.prev.represented
    /\ Ret.last.n >= 2
    /\ Ret.prev.before.documents = 1

\* C20: after an add_document call that returns, the number of chunk records
\* is the next label.
C20_RecordsMatchLabels ==
    (Ret.op = "add" /\ Ret.last.outcome = "ok")
        => Len(TheIndex.records) = TheIndex.next_label

\* The items of the hnsw index, none when it was never created.
ItemsOf(ix) == IF ix.hnsw = None THEN << >> ELSE ix.hnsw[1].items

\* C21: the index starts at label 0; next_label never decreases; a call that
\* inserts n vectors gives them the labels next_label .. next_label + n - 1
\* of before the call and keeps the earlier items; no two items share a label.
C21_LabelsIncrease ==
    /\ [](calls = 0 => TheIndex.next_label = 0 /\ ItemsOf(TheIndex) = << >>)
    /\ [][ LET old == ItemsOf(heap[1])
               new == ItemsOf(heap'[1])
               k == Len(new) - Len(old)
           IN  /\ heap'[1].next_label >= heap[1].next_label
               /\ k >= 0
               /\ SubSeq(new, 1, Len(old)) = old
               /\ (k > 0 => heap'[1].next_label = heap[1].next_label + k)
               /\ \A i \in 1..k : new[Len(old) + i].label = heap[1].next_label + i - 1
               /\ \A i, j \in 1..Len(new) : i < j => new[i].label < new[j].label ]_vars

C21_Witness ==
    /\ Ret.op = "add" /\ Ret.prev.op = "add"
    /\ Ret.last.outcome = "ok" /\ Ret.last.n >= 2
    /\ Ret.prev.outcome = "EmbeddingError"
    /\ Len(ItemsOf(TheIndex)) >= 3
    /\ ItemsOf(TheIndex)[Len(ItemsOf(TheIndex))].label > Len(ItemsOf(TheIndex)) - 1

\* The vector of the item stored under a label.
VectorOf(ix, l) ==
    LET its == ItemsOf(ix)
        i == CHOOSE j \in 1..Len(its) : its[j].label = l
    IN  Counts(ix.model, its[i].src)

\* Two items are equally similar to the query text.
SameScore(ix, text, l1, l2) ==
    LET q == Counts(ix.model, text)
    IN  /\ ~CosGreater(q, VectorOf(ix, l1), VectorOf(ix, l2))
        /\ ~CosGreater(q, VectorOf(ix, l2), VectorOf(ix, l1))

\* C23: a query with top_k >= 1 on an index holding n >= 1 vectors returns
\* min(top_k, n) hits, each the record of a different item of the index, the
\* more similar first.
C23_QueryReturnsTopK ==
    (Ret.op = "vquery" /\ Ret.last.top_k >= 1 /\ Len(ItemsOf(TheIndex)) >= 1)
        => LET r == Ret.last
               n == Len(ItemsOf(TheIndex))
               q == Counts(TheIndex.model, r.text)
           IN  /\ r.outcome = "ok"
               /\ Len(r.hits) = Min(r.top_k, n)
               /\ Len(r.labels) = Len(r.hits)
               /\ \A i \in 1..Len(r.labels) :
                    /\ \E j \in 1..n : ItemsOf(TheIndex)[j].label = r.labels[i]
                    /\ r.labels[i] < Len(TheIndex.records)
                    /\ r.hits[i] = TheIndex.records[r.labels[i] + 1].chunk_id
               /\ \A i, j \in 1..Len(r.labels) :
                    i < j => /\ r.labels[i] # r.labels[j]
                             /\ ~CosGreater(q, VectorOf(TheIndex, r.labels[j]),
                                                VectorOf(TheIndex, r.labels[i]))

C25_NonPositiveTopK ==
    (Ret.op = "vquery" /\ Ret.last.top_k <= 0 /\ Len(ItemsOf(TheIndex)) >= 1)
        => Ret.last.outcome = "ok" /\ Ret.last.hits = << >>

\* C26: a query on an index that holds no vector returns no hit, raises
\* nothing and does not embed the query text.
C26_EmptyIndexQuery ==
    (Ret.op = "vquery" /\ ItemsOf(TheIndex) = << >>)
        => /\ Ret.last.outcome = "ok"
           /\ Ret.last.hits = << >>
           /\ ~Ret.last.embedded

\* C22: after every step the capacity of the hnsw index is at least the
\* number of vectors it holds and equals the capacity the VectorIndex keeps;
\* a capacity that changes at least doubles; the vectors held before, with
\* their labels, stay in place.
C22_CapacityGrowth ==
    [][ LET old == heap[1]
            new == heap'[1]
        IN  /\ new.hnsw # None
                => /\ new.hnsw[1].max_elements >= Len(ItemsOf(new))
                   /\ new.hnsw[1].max_elements = new.max_elements
            /\ new.max_elements # old.max_elements
                => new.max_elements >= 2 * old.max_elements
            /\ Len(ItemsOf(new)) >= Len(ItemsOf(old))
            /\ SubSeq(ItemsOf(new), 1, Len(ItemsOf(old))) = ItemsOf(old) ]_vars

\* A first batch larger than the initial capacity was inserted.
C22_Witness ==
    /\ Ret.op = "add" /\ Ret.last.outcome = "ok"
    /\ Ret.last.before.chunks = 0
    /\ Ret.last.n > INITIAL_MAX_ELEMENTS
    /\ Len(ItemsOf(TheIndex)) = Ret.last.n
    /\ TheIndex.max_elements >= 2 * INITIAL_MAX_ELEMENTS

\* C28: a build_index call with policy "sliding" and a valid pair
\* window_chars = W, overlap_chars = O does not fail on its configuration,
\* and when it returns, the index holds the segments of its documents under
\* window W and overlap O and the manifest records W and O.
C28_SlidingBuildUsesConfig ==
    (/\ Ret.op = "build" /\ Ret.args.policy = "sliding"
     /\ Ret.args.window # None /\ Ret.args.overlap # None
     /\ SlidingValid(Ret.args.window[1], Ret.args.overlap[1]))
        => LET W == Ret.args.window[1]
               O == Ret.args.overlap[1]
           IN  /\ Ret.outcome # "ValueError"
               /\ Ret.outcome = "ok"
                    => /\ manifests[Ret.name].chunk_config
                            = [window_chars |-> W, overlap_chars |-> O]
                       /\ RecordsOf(IndexOf(Ret.name))
                            = ExpectedChunks(SlidingWindowChunker(W, O), Ret.added)

\* The policy object of the single-policy specification.
ThePolicy == heap[1]

\* A text has no whitespace at either end.
IsTrimmed(s) == s = << >> \/ (~IsSpace(s[1]) /\ ~IsSpace(s[Len(s)]))

\* C27: SlidingWindowChunker(w, o) returns an object exactly when w > 0 and
\* 0 <= o < w, and raises ValueError otherwise; the policy in place, when a
\* sliding window, has such a pair, and chunk never raises.
C27_SlidingConstruction ==
    /\ Ret.op = "new"
        => /\ Ret.outcome = "ok"
                <=> (Ret.window > 0 /\ 0 <= Ret.overlap /\ Ret.overlap < Ret.window)
           /\ Ret.outcome \in {"ok", "ValueError"}
           /\ Ret.outcome = "ok"
                => ThePolicy = SlidingWindowChunker(Ret.window, Ret.overlap)
    /\ ThePolicy.name = "sliding_window"
        => /\ ThePolicy.window_chars > 0
           /\ 0 <= ThePolicy.overlap_chars
           /\ ThePolicy.overlap_chars < ThePolicy.window_chars
    /\ Ret.op = "chunk" => Ret.outcome = "ok"

\* The constructor refused an overlap equal to a positive window.
C27_Witness ==
    /\ Ret.op = "new" /\ Ret.outcome = "ValueError"
    /\ Ret.window > 0 /\ Ret.overlap = Ret.window

\* The raw windows of length up to W taken at offsets offset, offset + (W - O),
\* ... while the offset is below the length of the content.
RECURSIVE RawWindowsFrom(_, _, _, _)
RawWindowsFrom(content, offset, W, O) ==
    IF offset >= Len(content) THEN << >>
    ELSE <<SubSeq(content, offset + 1, Min(offset + W, Len(content)))>>
         \o RawWindowsFrom(content, offset + (W - O), W, O)

\* C29: chunk of a sliding window (W, O) gives the raw windows of the trimmed
\* text taken at offsets 0, W - O, ... below its length L, ceil(L / (W - O))
\* of them, each trimmed, the empty ones left out, in offset order; every
\* segment is non-empty, trimmed and at most W long.
C29_SlidingWindows ==
    (Ret.op = "chunk" /\ ThePolicy.name = "sliding_window")
        => LET W == ThePolicy.window_chars
               O == ThePolicy.overlap_chars
               content == Strip(Ret.text)
               L == Len(content)
               raw == RawWindowsFrom(content, 0, W, O)
               kept == {k \in 1..Len(raw) : Strip(raw[k]) # << >>}
               segs == Ret.segments
           IN  /\ Len(raw) * (W - O) >= L
               /\ (Len(raw) - 1) * (W - O) < L
               /\ Len(segs) = Cardinality(kept)
               /\ \A i \in 1..Len(segs) :
                    /\ segs[i] # << >> /\ IsTrimmed(segs[i]) /\ Len(segs[i]) <= W
                    /\ \E k \in kept :
                        /\ segs[i] = Strip(raw[k])
                        /\ Cardinality({j \in kept : j < k}) = i - 1

\* The example: W = 10, O = 2, sixteen letters give "abcdefghij", "ijklmnop".
C29_Witness ==
    /\ Ret.op = "chunk"
    /\ ThePolicy = SlidingWindowChunker(10, 2)
    /\ Len(Ret.text) = 16
    /\ Ret.segments = << SubSeq(Ret.text, 1, 10), SubSeq(Ret.text, 9, 16) >>
    /\ Ret.segments[2][1] = "i" /\ Ret.segments[2][8] = "p"

\* C30: under each policy, a text of whitespace only (or empty) gives no
\* segment, and every segment of any text is non-empty and trimmed.
C30_SegmentsTrimmed ==
    Ret.op = "chunk"
        => /\ (\A i \in 1..Len(Ret.text) : IsSpace(Ret.text[i])) => Ret.segments = << >>
           /\ \A i \in 1..Len(Ret.segments) :
                Ret.segments[i] # << >> /\ IsTrimmed(Ret.segments[i])

\* A blank (not empty) text under the paragraph policy gave nothing.
C30_Witness ==
    /\ Ret.op = "chunk" /\ ThePolicy.name = "paragraph"
    /\ Ret.text # << >> /\ (\A i \in 1..Len(Ret.text) : IsSpace(Ret.text[i]))
    /\ Ret.segments = << >>

\* C32: status() leaves the index as it is; the documents it reports are as
\* many as the distinct ids whose add_document call put a vector into the
\* index, the chunks as many as the chunk records.
C32_StatusPure ==
    /\ [][ (threads'[1].ret.op = "status" /\ threads' # threads) => heap' = heap ]_vars
    /\ [](Ret.op = "status"
            => /\ Ret.last.value.documents = Cardinality(Ret.inserted)
               /\ Ret.last.value.chunks = Len(TheIndex.records)
               /\ Ret.last.value.name = TheIndex.name
               /\ Ret.last.value.model = TheIndex.model
               /\ Ret.last.value.policy = TheIndex.policy.name)

\* status() of an index that has records of a document none of whose chunks
\* was inserted, besides a document that was.
C32_Witness ==
    /\ Ret.op = "status"
    /\ Ret.last.value.documents >= 1
    /\ Ret.last.value.chunks > Len(ItemsOf(TheIndex))
    /\ \E i \in 1..Len(TheIndex.records) : TheIndex.records[i].doc_id \notin Ret.inserted

\* C36: for every label held by the hnsw index, the record at that position
\* of the record list has the text whose embedding is stored under the label.
C36_RecordsAligned ==
    \A i \in 1..Len(ItemsOf(TheIndex)) :
        LET it == ItemsOf(TheIndex)[i]
        IN  /\ it.label < Len(TheIndex.records)
            /\ TheIndex.records[it.label + 1].text = it.src

\* C38: a step of add_document after which the vectors held do not exceed
\* the capacity there was before leaves the capacity as it was.
C38_NoNeedlessResize ==
    [][ Len(ItemsOf(heap'[1])) <= heap[1].max_elements
            => heap'[1].max_elements = heap[1].max_elements ]_vars

\* The multiset of the lower-cased whitespace-separated tokens of a text: a
\* token starts at a character that is not whitespace and follows whitespace
\* or nothing, and runs up to the next whitespace.
TokenStarts(s) == {i \in 1..Len(s) : ~IsSpace(s[i]) /\ (i = 1 \/ IsSpace(s[i - 1]))}

LowerCased(c) == CASE c = "A" -> "a" [] OTHER -> c

TokenAt(s, i) ==
    LET j == CHOOSE e \in i..Len(s) :
                /\ \A k \in i..e : ~IsSpace(s[k])
                /\ e = Len(s) \/ IsSpace(s[e + 1])
    IN  [k \in 1..(j - i + 1) |-> LowerCased(s[i + k - 1])]

TokenBag(s) ==
    [t \in {TokenAt(s, i) : i \in TokenStarts(s)} |->
        Cardinality({i \in TokenStarts(s) : TokenAt(s, i) = t})]

\* C33: two embed_text calls of one hashing model on texts with the same
\* multiset of lower-cased tokens (the same text in particular) give the same
\* vector, and the vector is zero exactly when the text has no token.
C33_HashEmbeddingDeterministic ==
    Ret.op = "embed"
        => /\ (Ret.prev.op = "embed" /\ TokenBag(Ret.prev.text) = TokenBag(Ret.last.text))
                => Ret.prev.vector = Ret.last.vector
           /\ DOMAIN Ret.last.vector.counts = {} <=> TokenStarts(Ret.last.text) = {}
           /\ Ret.last.vector.norm2 > 0

\* Two different texts, one with an upper-case token and other separators,
\* gave the same vector, which is not zero.
C33_Witness ==
    /\ Ret.op = "embed" /\ Ret.prev.op = "embed"
    /\ Ret.prev.text # Ret.last.text
    /\ Len(Ret.prev.text) # Len(Ret.last.text)
    /\ \E i \in 1..Len(Ret.last.text) : Ret.last.text[i] = "A"
    /\ TokenBag(Ret.prev.text) = TokenBag(Ret.last.text)
    /\ Ret.prev.vector = Ret.last.vector
    /\ DOMAIN Ret.last.vector.counts # {}

\* The policy names _resolve_policy knows.
PolicyNames == {"sliding", "paragraph", "document"}

\* C34: a build_index call whose model name or policy name is not registered
\* raises the unknown-model or unknown-policy error and leaves the index map,
\* the indexes, the manifest map and the manifest files as they were.
C34_UnknownNameTouchesNothing ==
    [][ (/\ calls' = calls + 1
         /\ RetNext.op = "build"
         /\ (RetNext.args.model \notin Models \/ RetNext.args.policy \notin PolicyNames))
            => /\ RetNext.outcome \in {"KeyError: Unknown model", "KeyError: Unknown policy"}
               /\ indexes' = indexes
               /\ heap' = heap
               /\ manifests' = manifests
               /\ disk' = disk ]_vars

\* C35: after a query or list_indexes call that failed because a document of
\* the manifest could not be loaded, the name it was rebuilding has no
\* materialized index.
C35_FailedRebuildLeavesNothing ==
    (/\ Ret.op \in {"query", "list"}
     /\ Ret.outcome \in {"FileNotFoundError", "KeyError: Unknown document"})
        => Ret.name \notin DOMAIN indexes

\* C37: the records of an index that a successful build_index made carry the
\* id of their document with their ordinal within the call, and no two
\* records have the same chunk id.
C37_ChunkIdsDistinct ==
    (Ret.op = "build" /\ Ret.outcome = "ok")
        => LET recs == IndexOf(Ret.name).records
           IN  /\ \A i \in 1..Len(recs) :
                    recs[i].chunk_id = <<recs[i].doc_id, recs[i].metadata.order>>
               /\ \A i, j \in 1..Len(recs) :
                    i < j => recs[i].chunk_id # recs[j].chunk_id

\* C39: a build_index, query or reset_index call of one name leaves the
\* index, the manifest and the manifest file of every other name as they
\* were, present or absent.
C39_OtherNamesUntouched ==
    [][ (calls' = calls + 1 /\ RetNext.op \in {"build", "query", "reset"})
            => \A B \in Names \ {RetNext.name} :
                /\ (B \in DOMAIN indexes) = (B \in DOMAIN indexes')
                /\ B \in DOMAIN indexes => heap'[indexes'[B]] = heap[indexes[B]]
                /\ (B \in DOMAIN manifests) = (B \in DOMAIN manifests')
                /\ B \in DOMAIN manifests => manifests'[B] = manifests[B]
                /\ (B \in DOMAIN disk) = (B \in DOMAIN disk')
                /\ B \in DOMAIN disk => disk'[B] = disk[B] ]_vars

\* A build_index of one name returned, by error, while another name had an
\* index, a manifest and a manifest file.
C39_Witness ==
    /\ Ret.op = "build" /\ Ret.outcome # "ok"
    /\ Ret.args.policy_obj.name # ""
    /\ \E B \in Names \ {Ret.name} :
        /\ B \in DOMAIN indexes
        /\ B \in DOMAIN manifests
        /\ B \in DOMAIN disk

\* A build_index of a name other than n is running in a thread.
BuildingOther(n) ==
    \E u \in ThreadIds : threads[u].op = "build" /\ threads[u].name # n

\* C31: beside a running build_index of another name, a handler that runs a
\* query is at a statement whose execution moves it on, and a query of a materialized
\* name that started and returned beside the build has the result the query
\* gives when run alone.
C31_CrossNameNotBlocked ==
    \A t \in ThreadIds :
        /\ (threads[t].op = "query" /\ BuildingOther(threads[t].name))
                => /\ threads[t].pc # "idle"
                   /\ Step(Shared, threads[t]).t # threads[t]
        /\ LET r == threads[t].ret
           IN  (/\ r.op = "query" /\ r.beside /\ r.was_present
                /\ BuildingOther(r.name))
                   => LET alone == Run(Shared, CrossQuery).t.ret
                      IN  /\ r.outcome = alone.outcome
                          /\ r.hits = alone.hits

\* A query of the materialized name returned its hits beside a build_index
\* that was running when it started and is in its document loop.
C31_Witness ==
    \E t \in ThreadIds :
        /\ threads[t].ret.op = "query" /\ threads[t].ret.beside
        /\ threads[t].ret.was_present
        /\ threads[t].ret.outcome = "ok"
        /\ threads[t].ret.hits # << >>
        /\ \E u \in ThreadIds \ {t} :
            /\ threads[u].op = "build" /\ threads[u].pc \in {"a_chunk", "a_flush"}
            /\ threads[u].name \in DOMAIN indexes
====
